---- MODULE Spec2Model ----
(***************************************************************************)
(* Air Lift: the pilot of src/src/semSharedMemPilot.c, together with the   *)
(* hostess, the passengers and the controller it synchronises with.        *)
(* The pilot is translated from the source, one action per semaphore       *)
(* operation or critical-section body.  The hostess, the passengers and    *)
(* the controller are not part of the source file; they follow sections    *)
(* 4.3, 4.4 and 3 of the specification.                                    *)
(***************************************************************************)
EXTENDS Integers, Naturals, Sequences, FiniteSets, TLC

\* ---- bounds ----
NPassengers == 3
MaxCapacity == 2

Passengers == 1..NPassengers

\* ---- pilot phases (probConst.h, in the order the spec lists them) ----
FLYING_BACK == "FLYING_BACK"
READY_FOR_BOARDING == "READY_FOR_BOARDING"
WAITING_FOR_BOARDING == "WAITING_FOR_BOARDING"
FLYING == "FLYING"
DROPING_PASSENGERS == "DROPING_PASSENGERS"

PhaseSeq == <<FLYING_BACK, READY_FOR_BOARDING, WAITING_FOR_BOARDING, FLYING, DROPING_PASSENGERS>>

VARIABLES
  mutex,                  \* sh->mutex, semaphore count
  readyForBoarding,       \* sh->readyForBoarding, semaphore count
  readyToFlight,          \* sh->readyToFlight, semaphore count
  passengersWaitInFlight, \* sh->passengersWaitInFlight, semaphore count
  planeEmpty,             \* sh->planeEmpty, semaphore count
  pilotStat,              \* sh->fSt.st.pilotStat
  nFlight,                \* sh->fSt.nFlight
  finished,               \* sh->fSt.finished
  boardedCount,           \* passengers aboard (the remaining-count on egress)
  capacity,               \* plane capacity, fixed for a run
  pcP,                    \* pilot: position in main / flight / ...
  go,                     \* pilot: argument of the current flight() call
  pilotHolds,             \* pilot: units of sh->mutex taken by semDown and not yet given back
  pcH,                    \* hostess position
  hStop,                  \* hostess: stopping rule met after this admission
  hFin,                   \* hostess: value of finished read at the cycle test
  pcPass,                 \* passenger positions
  last,                   \* passenger: my decrement took the count to zero
  nWrites,                \* history: pilot writes of pilotStat
  lastWrite,              \* history: value of the last pilot write
  nSaves,                 \* history: pilot saveState calls
  lastSave,               \* history: pilotStat seen by the last saveState
  prevSave,               \* history: pilotStat seen by the saveState before
  nBoardingRaises,        \* history: ups of readyForBoarding
  nToFlightRaises,        \* history: ups of readyToFlight
  nWaitRaises,            \* history: ups of passengersWaitInFlight
  nEmptyRaises,           \* history: ups of planeEmpty
  nEmptyTaken,            \* history: pilot downs of planeEmpty
  nAdmitted,              \* history: admissions
  nEgress,                \* history: egress decrements
  boardedAtDeparture,     \* history: boardedCount when readyToFlight was raised
  egressAtDeparture,      \* history: nEgress when readyToFlight was raised
  admittedIn,             \* history: the flight number each passenger was admitted in, 0 if none
  finishedAt,             \* history: pilotStat when finished was set
  failed,                 \* history: a semaphore operation of the pilot returned -1
  log                     \* history: number of pilot log lines and the last one written

sems == <<mutex, readyForBoarding, readyToFlight, passengersWaitInFlight, planeEmpty>>
fSt == <<pilotStat, nFlight, finished, boardedCount>>
pilotLocal == <<pcP, go, pilotHolds>>
hostessLocal == <<pcH, hStop, hFin>>
passLocal == <<pcPass, last>>
pilotHist == <<nWrites, lastWrite, nSaves, lastSave, prevSave, nBoardingRaises, nWaitRaises, nEmptyTaken>>
otherHist == <<nToFlightRaises, nEmptyRaises, nAdmitted, nEgress, boardedAtDeparture>>
ghost == <<egressAtDeparture, admittedIn, finishedAt, failed, log>>
vars == <<sems, fSt, capacity, pilotLocal, hostessLocal, passLocal, pilotHist, otherHist, ghost>>

Init ==
  /\ mutex = 1
  /\ readyForBoarding = 0 /\ readyToFlight = 0
  /\ passengersWaitInFlight = 0 /\ planeEmpty = 0
  /\ pilotStat = FLYING_BACK /\ nFlight = 0 /\ finished = FALSE
  /\ boardedCount = 0
  /\ capacity \in 1..MaxCapacity
  /\ pcP = "main_while" /\ go = FALSE /\ pilotHolds = 0
  /\ pcH = "h_cycle_semDown" /\ hStop = FALSE /\ hFin = FALSE
  /\ pcPass = [p \in Passengers |-> "away"]
  /\ last = [p \in Passengers |-> FALSE]
  /\ nWrites = 0 /\ lastWrite = "none"
  /\ nSaves = 0 /\ lastSave = "none" /\ prevSave = "none"
  /\ nBoardingRaises = 0 /\ nToFlightRaises = 0
  /\ nWaitRaises = 0 /\ nEmptyRaises = 0 /\ nEmptyTaken = 0
  /\ nAdmitted = 0 /\ nEgress = 0 /\ boardedAtDeparture = 0
  /\ egressAtDeparture = 0
  /\ admittedIn = [p \in Passengers |-> 0]
  /\ finishedAt = "none" /\ failed = FALSE
  /\ log = [n |-> 0, ev |-> "none", stat |-> "none", nFlight |-> 0]

\* ---- the pilot (src/src/semSharedMemPilot.c) ----

isFinished == finished

\* sh->fSt.st.pilotStat = v, with the history of the write
WriteStat(v) ==
  /\ pilotStat' = v
  /\ nWrites' = nWrites + 1
  /\ lastWrite' = v

\* the log lines evs, written in this order by save*(nFic, &sh->fSt) while the
\* record holds pilotStat = st and nFlight = nf
saveLog(evs, st, nf) ==
  log' = [n |-> log.n + Len(evs), ev |-> evs[Len(evs)], stat |-> st, nFlight |-> nf]

\* saveState(nFic, &sh->fSt) after pilotStat has been set to v
saveState(v) ==
  /\ nSaves' = nSaves + 1
  /\ lastSave' = v
  /\ prevSave' = lastSave


\* a loop that never tests finished
main_while_ignoreFinished ==
  /\ pcP = "main_while"
  /\ pcP' = "flight_semDown" /\ go' = FALSE
  /\ UNCHANGED <<sems, pilotHolds, fSt, capacity, hostessLocal, passLocal, pilotHist, otherHist,
                 ghost>>

\* while (!isFinished()) { flight(false); ... }
main_while ==
  /\ pcP = "main_while"
  /\ IF isFinished
       THEN pcP' = "done" /\ go' = go
       ELSE pcP' = "flight_semDown" /\ go' = FALSE
  /\ UNCHANGED <<sems, pilotHolds, fSt, capacity, hostessLocal, passLocal, pilotHist, otherHist,
                 ghost>>


\* flight() entered without the semDown on the mutex
flight_semDown_noDown ==
  /\ pcP = "flight_semDown"
  /\ pcP' = "flight_write"
  /\ UNCHANGED <<sems, fSt, capacity, go, pilotHolds, hostessLocal, passLocal, pilotHist, otherHist,
                 ghost>>

flight_semDown ==
  /\ pcP = "flight_semDown"
  /\ mutex > 0
  /\ mutex' = mutex - 1
  /\ pilotHolds' = pilotHolds + 1
  /\ pcP' = "flight_write"
  /\ UNCHANGED <<readyForBoarding, readyToFlight, passengersWaitInFlight, planeEmpty,
                 fSt, capacity, go, hostessLocal, passLocal, pilotHist, otherHist,
                 ghost>>


\* flight() that ignores its argument and always writes FLYING_BACK
flight_write_ignoreGo ==
  /\ pcP = "flight_write"
  /\ WriteStat(FLYING_BACK)
  /\ saveState(FLYING_BACK)
  /\ saveLog(<<"saveState">>, FLYING_BACK, nFlight)
  /\ pcP' = "flight_semUp"
  /\ UNCHANGED <<sems, nFlight, finished, boardedCount, capacity, go, pilotHolds, hostessLocal, passLocal,
                 nBoardingRaises, nWaitRaises, nEmptyTaken, otherHist,
                 egressAtDeparture, admittedIn, finishedAt, failed>>

flight_write ==
  /\ pcP = "flight_write"
  /\ WriteStat(IF go THEN FLYING ELSE FLYING_BACK)
  /\ saveState(IF go THEN FLYING ELSE FLYING_BACK)
  /\ saveLog(<<"saveState">>, IF go THEN FLYING ELSE FLYING_BACK, nFlight)
  /\ pcP' = "flight_semUp"
  /\ UNCHANGED <<sems, nFlight, finished, boardedCount, capacity, go, pilotHolds, hostessLocal, passLocal,
                 nBoardingRaises, nWaitRaises, nEmptyTaken, otherHist,
                 egressAtDeparture, admittedIn, finishedAt, failed>>

flight_semUp ==
  /\ pcP = "flight_semUp"
  /\ mutex' = mutex + 1
  /\ pilotHolds' = pilotHolds - 1
  /\ pcP' = "flight_usleep"
  /\ UNCHANGED <<readyForBoarding, readyToFlight, passengersWaitInFlight, planeEmpty,
                 fSt, capacity, go, hostessLocal, passLocal, pilotHist, otherHist,
                 ghost>>

\* the travel delay, then the return to main and the next call
flight_usleep ==
  /\ pcP = "flight_usleep"
  /\ pcP' = IF go THEN "dp_semDown" ELSE "srb_semDown"
  /\ UNCHANGED <<sems, fSt, capacity, go, pilotHolds, hostessLocal, passLocal, pilotHist, otherHist,
                 ghost>>

srb_semDown ==
  /\ pcP = "srb_semDown"
  /\ mutex > 0
  /\ mutex' = mutex - 1
  /\ pilotHolds' = pilotHolds + 1
  /\ pcP' = "srb_write"
  /\ UNCHANGED <<readyForBoarding, readyToFlight, passengersWaitInFlight, planeEmpty,
                 fSt, capacity, go, hostessLocal, passLocal, pilotHist, otherHist,
                 ghost>>



\* signalReadyForBoarding() that saves before the flight number is updated
srb_write_saveBeforeIncrement ==
  /\ pcP = "srb_write"
  /\ WriteStat(READY_FOR_BOARDING)
  /\ saveState(READY_FOR_BOARDING)
  /\ saveLog(<<"saveState", "saveStartBoarding">>, READY_FOR_BOARDING, nFlight)
  /\ nFlight' = nFlight + 1
  /\ pcP' = "srb_semUp"
  /\ UNCHANGED <<sems, finished, boardedCount, capacity, go, pilotHolds, hostessLocal, passLocal,
                 nBoardingRaises, nWaitRaises, nEmptyTaken, otherHist,
                 egressAtDeparture, admittedIn, finishedAt, failed>>

\* signalReadyForBoarding() that forgets sh->fSt.nFlight++
srb_write_noIncrement ==
  /\ pcP = "srb_write"
  /\ WriteStat(READY_FOR_BOARDING)
  /\ saveState(READY_FOR_BOARDING)
  /\ saveLog(<<"saveState", "saveStartBoarding">>, READY_FOR_BOARDING, nFlight)
  /\ pcP' = "srb_semUp"
  /\ UNCHANGED <<sems, nFlight, finished, boardedCount, capacity, go, pilotHolds, hostessLocal, passLocal,
                 nBoardingRaises, nWaitRaises, nEmptyTaken, otherHist,
                 egressAtDeparture, admittedIn, finishedAt, failed>>

srb_write ==
  /\ pcP = "srb_write"
  /\ WriteStat(READY_FOR_BOARDING)
  /\ nFlight' = nFlight + 1
  /\ saveState(READY_FOR_BOARDING)
  /\ saveLog(<<"saveState", "saveStartBoarding">>, READY_FOR_BOARDING, nFlight + 1)
  /\ pcP' = "srb_semUp"
  /\ UNCHANGED <<sems, finished, boardedCount, capacity, go, pilotHolds, hostessLocal, passLocal,
                 nBoardingRaises, nWaitRaises, nEmptyTaken, otherHist,
                 egressAtDeparture, admittedIn, finishedAt, failed>>


\* signalReadyForBoarding() that goes on to the raise without releasing the mutex
srb_semUp_noRelease ==
  /\ pcP = "srb_semUp"
  /\ pcP' = "srb_semUpReady"
  /\ UNCHANGED <<sems, fSt, capacity, go, pilotHolds, hostessLocal, passLocal, pilotHist, otherHist,
                 ghost>>

srb_semUp ==
  /\ pcP = "srb_semUp"
  /\ mutex' = mutex + 1
  /\ pilotHolds' = pilotHolds - 1
  /\ pcP' = "srb_semUpReady"
  /\ UNCHANGED <<readyForBoarding, readyToFlight, passengersWaitInFlight, planeEmpty,
                 fSt, capacity, go, hostessLocal, passLocal, pilotHist, otherHist,
                 ghost>>


\* signalReadyForBoarding() that raises readyForBoarding twice
srb_semUpReady_twice ==
  /\ pcP = "srb_semUpReady"
  /\ readyForBoarding' = readyForBoarding + 2
  /\ nBoardingRaises' = nBoardingRaises + 1
  /\ pcP' = "wurf_semDown"
  /\ UNCHANGED <<mutex, readyToFlight, passengersWaitInFlight, planeEmpty,
                 fSt, capacity, go, pilotHolds, hostessLocal, passLocal,
                 nWrites, lastWrite, nSaves, lastSave, prevSave, nWaitRaises, nEmptyTaken, otherHist,
                 ghost>>

srb_semUpReady ==
  /\ pcP = "srb_semUpReady"
  /\ readyForBoarding' = readyForBoarding + 1
  /\ nBoardingRaises' = nBoardingRaises + 1
  /\ pcP' = "wurf_semDown"
  /\ UNCHANGED <<mutex, readyToFlight, passengersWaitInFlight, planeEmpty,
                 fSt, capacity, go, pilotHolds, hostessLocal, passLocal,
                 nWrites, lastWrite, nSaves, lastSave, prevSave, nWaitRaises, nEmptyTaken, otherHist,
                 ghost>>

wurf_semDown ==
  /\ pcP = "wurf_semDown"
  /\ mutex > 0
  /\ mutex' = mutex - 1
  /\ pilotHolds' = pilotHolds + 1
  /\ pcP' = "wurf_write"
  /\ UNCHANGED <<readyForBoarding, readyToFlight, passengersWaitInFlight, planeEmpty,
                 fSt, capacity, go, hostessLocal, passLocal, pilotHist, otherHist,
                 ghost>>

wurf_write ==
  /\ pcP = "wurf_write"
  /\ WriteStat(WAITING_FOR_BOARDING)
  /\ saveState(WAITING_FOR_BOARDING)
  /\ saveLog(<<"saveState">>, WAITING_FOR_BOARDING, nFlight)
  /\ pcP' = "wurf_semUp"
  /\ UNCHANGED <<sems, nFlight, finished, boardedCount, capacity, go, pilotHolds, hostessLocal, passLocal,
                 nBoardingRaises, nWaitRaises, nEmptyTaken, otherHist,
                 egressAtDeparture, admittedIn, finishedAt, failed>>

wurf_semUp ==
  /\ pcP = "wurf_semUp"
  /\ mutex' = mutex + 1
  /\ pilotHolds' = pilotHolds - 1
  /\ pcP' = "wurf_semDownReady"
  /\ UNCHANGED <<readyForBoarding, readyToFlight, passengersWaitInFlight, planeEmpty,
                 fSt, capacity, go, hostessLocal, passLocal, pilotHist, otherHist,
                 ghost>>



\* a wait on readyToFlight that gives the cycle up once finished is set
wurf_semDownReady_abortOnFinished ==
  /\ pcP = "wurf_semDownReady"
  /\ \/ /\ readyToFlight > 0
        /\ readyToFlight' = readyToFlight - 1
        /\ pcP' = "flight_semDown" /\ go' = TRUE
     \/ /\ finished
        /\ readyToFlight' = readyToFlight
        /\ pcP' = "main_while" /\ go' = go
  /\ UNCHANGED <<mutex, readyForBoarding, passengersWaitInFlight, planeEmpty,
                 fSt, capacity, pilotHolds, hostessLocal, passLocal, pilotHist, otherHist,
                 ghost>>

\* waitUntilReadyToFlight() that returns without the semDown on readyToFlight
wurf_semDownReady_noWait ==
  /\ pcP = "wurf_semDownReady"
  /\ pcP' = "flight_semDown" /\ go' = TRUE
  /\ UNCHANGED <<sems, fSt, capacity, pilotHolds, hostessLocal, passLocal, pilotHist, otherHist,
                 ghost>>

\* semDown(readyToFlight), then the return to main and flight(true)
wurf_semDownReady ==
  /\ pcP = "wurf_semDownReady"
  /\ readyToFlight > 0
  /\ readyToFlight' = readyToFlight - 1
  /\ pcP' = "flight_semDown" /\ go' = TRUE
  /\ UNCHANGED <<mutex, readyForBoarding, passengersWaitInFlight, planeEmpty,
                 fSt, capacity, pilotHolds, hostessLocal, passLocal, pilotHist, otherHist,
                 ghost>>

dp_semDown ==
  /\ pcP = "dp_semDown"
  /\ mutex > 0
  /\ mutex' = mutex - 1
  /\ pilotHolds' = pilotHolds + 1
  /\ pcP' = "dp_write"
  /\ UNCHANGED <<readyForBoarding, readyToFlight, passengersWaitInFlight, planeEmpty,
                 fSt, capacity, go, hostessLocal, passLocal, pilotHist, otherHist,
                 ghost>>



\* dropPassengersAtTarget() that also clears the count of passengers aboard
dp_write_resetCount ==
  /\ pcP = "dp_write"
  /\ WriteStat(DROPING_PASSENGERS)
  /\ saveState(DROPING_PASSENGERS)
  /\ saveLog(<<"saveFlightArrived", "saveState">>, DROPING_PASSENGERS, nFlight)
  /\ boardedCount' = 0
  /\ pcP' = "dp_semUp"
  /\ UNCHANGED <<sems, nFlight, finished, capacity, go, pilotHolds, hostessLocal, passLocal,
                 nBoardingRaises, nWaitRaises, nEmptyTaken, otherHist,
                 egressAtDeparture, admittedIn, finishedAt, failed>>

\* dropPassengersAtTarget() that logs the arrival but forgets the state write
dp_write_noStat ==
  /\ pcP = "dp_write"
  /\ pcP' = "dp_semUp"
  /\ UNCHANGED <<sems, fSt, capacity, go, pilotHolds, hostessLocal, passLocal, pilotHist, otherHist,
                 ghost>>

\* pilotStat = DROPING_PASSENGERS; saveFlightArrived; saveState
dp_write ==
  /\ pcP = "dp_write"
  /\ WriteStat(DROPING_PASSENGERS)
  /\ saveState(DROPING_PASSENGERS)
  /\ saveLog(<<"saveFlightArrived", "saveState">>, DROPING_PASSENGERS, nFlight)
  /\ pcP' = "dp_semUp"
  /\ UNCHANGED <<sems, nFlight, finished, boardedCount, capacity, go, pilotHolds, hostessLocal, passLocal,
                 nBoardingRaises, nWaitRaises, nEmptyTaken, otherHist,
                 egressAtDeparture, admittedIn, finishedAt, failed>>

dp_semUp ==
  /\ pcP = "dp_semUp"
  /\ mutex' = mutex + 1
  /\ pilotHolds' = pilotHolds - 1
  /\ pcP' = "dp_semUpWait"
  /\ UNCHANGED <<readyForBoarding, readyToFlight, passengersWaitInFlight, planeEmpty,
                 fSt, capacity, go, hostessLocal, passLocal, pilotHist, otherHist,
                 ghost>>


\* dropPassengersAtTarget() that raises passengersWaitInFlight twice
dp_semUpWait_twice ==
  /\ pcP = "dp_semUpWait"
  /\ passengersWaitInFlight' = passengersWaitInFlight + 2
  /\ nWaitRaises' = nWaitRaises + 1
  /\ pcP' = "dp_semDownEmpty"
  /\ UNCHANGED <<mutex, readyForBoarding, readyToFlight, planeEmpty,
                 fSt, capacity, go, pilotHolds, hostessLocal, passLocal,
                 nWrites, lastWrite, nSaves, lastSave, prevSave, nBoardingRaises, nEmptyTaken, otherHist,
                 ghost>>

dp_semUpWait ==
  /\ pcP = "dp_semUpWait"
  /\ passengersWaitInFlight' = passengersWaitInFlight + 1
  /\ nWaitRaises' = nWaitRaises + 1
  /\ pcP' = "dp_semDownEmpty"
  /\ UNCHANGED <<mutex, readyForBoarding, readyToFlight, planeEmpty,
                 fSt, capacity, go, pilotHolds, hostessLocal, passLocal,
                 nWrites, lastWrite, nSaves, lastSave, prevSave, nBoardingRaises, nEmptyTaken, otherHist,
                 ghost>>



\* dropPassengersAtTarget() that waits on passengersWaitInFlight instead of
\* planeEmpty
dp_semDownEmpty_wrongSem ==
  /\ pcP = "dp_semDownEmpty"
  /\ passengersWaitInFlight > 0
  /\ passengersWaitInFlight' = passengersWaitInFlight - 1
  /\ nEmptyTaken' = nEmptyTaken + 1
  /\ pcP' = "dp_semDown2"
  /\ UNCHANGED <<mutex, readyForBoarding, readyToFlight, planeEmpty,
                 fSt, capacity, go, pilotHolds, hostessLocal, passLocal,
                 nWrites, lastWrite, nSaves, lastSave, prevSave, nBoardingRaises, nWaitRaises, otherHist,
                 ghost>>

\* dropPassengersAtTarget() that goes on without the semDown on planeEmpty
dp_semDownEmpty_noWait ==
  /\ pcP = "dp_semDownEmpty"
  /\ nEmptyTaken' = nEmptyTaken + 1
  /\ pcP' = "dp_semDown2"
  /\ UNCHANGED <<sems, fSt, capacity, go, pilotHolds, hostessLocal, passLocal,
                 nWrites, lastWrite, nSaves, lastSave, prevSave, nBoardingRaises, nWaitRaises, otherHist,
                 ghost>>

dp_semDownEmpty ==
  /\ pcP = "dp_semDownEmpty"
  /\ planeEmpty > 0
  /\ planeEmpty' = planeEmpty - 1
  /\ nEmptyTaken' = nEmptyTaken + 1
  /\ pcP' = "dp_semDown2"
  /\ UNCHANGED <<mutex, readyForBoarding, readyToFlight, passengersWaitInFlight,
                 fSt, capacity, go, pilotHolds, hostessLocal, passLocal,
                 nWrites, lastWrite, nSaves, lastSave, prevSave, nBoardingRaises, nWaitRaises, otherHist,
                 ghost>>

dp_semDown2 ==
  /\ pcP = "dp_semDown2"
  /\ mutex > 0
  /\ mutex' = mutex - 1
  /\ pilotHolds' = pilotHolds + 1
  /\ pcP' = "dp_saveReturning"
  /\ UNCHANGED <<readyForBoarding, readyToFlight, passengersWaitInFlight, planeEmpty,
                 fSt, capacity, go, hostessLocal, passLocal, pilotHist, otherHist,
                 ghost>>


\* dropPassengersAtTarget() that saves the state a second time with the return
dp_saveReturning_saveTwice ==
  /\ pcP = "dp_saveReturning"
  /\ saveLog(<<"saveFlightReturning", "saveState">>, pilotStat, nFlight)
  /\ saveState(pilotStat)
  /\ pcP' = "dp_semUp2"
  /\ UNCHANGED <<sems, fSt, capacity, go, pilotHolds, hostessLocal, passLocal,
                 nWrites, lastWrite, nBoardingRaises, nWaitRaises, nEmptyTaken, otherHist,
                 egressAtDeparture, admittedIn, finishedAt, failed>>

\* saveFlightReturning(nFic, &(sh->fSt)): a log line, no change of the record
dp_saveReturning ==
  /\ pcP = "dp_saveReturning"
  /\ saveLog(<<"saveFlightReturning">>, pilotStat, nFlight)
  /\ pcP' = "dp_semUp2"
  /\ UNCHANGED <<sems, fSt, capacity, go, pilotHolds, hostessLocal, passLocal, pilotHist, otherHist,
                 egressAtDeparture, admittedIn, finishedAt, failed>>

dp_semUp2 ==
  /\ pcP = "dp_semUp2"
  /\ mutex' = mutex + 1
  /\ pilotHolds' = pilotHolds - 1
  /\ pcP' = "main_while"
  /\ UNCHANGED <<readyForBoarding, readyToFlight, passengersWaitInFlight, planeEmpty,
                 fSt, capacity, go, hostessLocal, passLocal, pilotHist, otherHist,
                 ghost>>


\* the positions at which the pilot performs a semDown or a semUp
SemOpPositions ==
  {"flight_semDown", "flight_semUp",
   "srb_semDown", "srb_semUp", "srb_semUpReady",
   "wurf_semDown", "wurf_semUp", "wurf_semDownReady",
   "dp_semDown", "dp_semUp", "dp_semUpWait", "dp_semDownEmpty", "dp_semDown2", "dp_semUp2"}

\* a failed semaphore operation that is tried again instead of exiting
PilotSemFail_retry ==
  /\ pcP \in SemOpPositions
  /\ ~failed
  /\ failed' = TRUE
  /\ UNCHANGED <<sems, fSt, capacity, pilotLocal, hostessLocal, passLocal, pilotHist, otherHist,
                 egressAtDeparture, admittedIn, finishedAt, log>>

\* semDown / semUp returns -1: perror, exit(EXIT_FAILURE)
PilotSemFail ==
  /\ pcP \in SemOpPositions
  /\ pcP' = "aborted"
  /\ failed' = TRUE
  /\ UNCHANGED <<sems, fSt, capacity, go, pilotHolds, hostessLocal, passLocal, pilotHist, otherHist,
                 egressAtDeparture, admittedIn, finishedAt, log>>

flight == flight_semDown \/ flight_write \/ flight_semUp \/ flight_usleep
signalReadyForBoarding == srb_semDown \/ srb_write \/ srb_semUp \/ srb_semUpReady
waitUntilReadyToFlight == wurf_semDown \/ wurf_write \/ wurf_semUp \/ wurf_semDownReady
dropPassengersAtTarget ==
  \/ dp_semDown \/ dp_write \/ dp_semUp \/ dp_semUpWait
  \/ dp_semDownEmpty \/ dp_semDown2 \/ dp_saveReturning \/ dp_semUp2

Pilot ==
  \/ main_while \/ flight \/ signalReadyForBoarding
  \/ waitUntilReadyToFlight \/ dropPassengersAtTarget

\* ---- the hostess (specification 4.3) ----

QueueEmpty(pc) == \A p \in Passengers : pc[p] # "queued"

\* cycle boundary: read finished under the mutex
h_cycle_semDown ==
  /\ pcH = "h_cycle_semDown"
  /\ mutex > 0
  /\ mutex' = mutex - 1
  /\ pcH' = "h_cycle_read"
  /\ UNCHANGED <<readyForBoarding, readyToFlight, passengersWaitInFlight, planeEmpty,
                 fSt, capacity, pilotLocal, hStop, hFin, passLocal, pilotHist, otherHist,
                 ghost>>

h_cycle_read ==
  /\ pcH = "h_cycle_read"
  /\ hFin' = finished
  /\ pcH' = "h_cycle_semUp"
  /\ UNCHANGED <<sems, fSt, capacity, pilotLocal, hStop, passLocal, pilotHist, otherHist,
                 ghost>>

h_cycle_semUp ==
  /\ pcH = "h_cycle_semUp"
  /\ mutex' = mutex + 1
  /\ pcH' = IF hFin THEN "h_done" ELSE "h_waitBoarding"
  /\ UNCHANGED <<readyForBoarding, readyToFlight, passengersWaitInFlight, planeEmpty,
                 fSt, capacity, pilotLocal, hStop, hFin, passLocal, pilotHist, otherHist,
                 ghost>>

\* block on readyForBoarding
h_waitBoarding ==
  /\ pcH = "h_waitBoarding"
  /\ readyForBoarding > 0
  /\ readyForBoarding' = readyForBoarding - 1
  /\ pcH' = "h_admit_semDown"
  /\ UNCHANGED <<mutex, readyToFlight, passengersWaitInFlight, planeEmpty,
                 fSt, capacity, pilotLocal, hStop, hFin, passLocal, pilotHist, otherHist,
                 ghost>>

\* wait for a queued passenger, then enter the admission's critical section
h_admit_semDown ==
  /\ pcH = "h_admit_semDown"
  /\ ~QueueEmpty(pcPass)
  /\ mutex > 0
  /\ mutex' = mutex - 1
  /\ pcH' = "h_admit"
  /\ UNCHANGED <<readyForBoarding, readyToFlight, passengersWaitInFlight, planeEmpty,
                 fSt, capacity, pilotLocal, hStop, hFin, passLocal, pilotHist, otherHist,
                 ghost>>

\* one admission: increment boardedCount, wake the passenger, evaluate the
\* stopping rule (capacity or queue exhaustion)
h_admit ==
  /\ pcH = "h_admit"
  /\ \E p \in Passengers :
       /\ pcPass[p] = "queued"
       /\ pcPass' = [pcPass EXCEPT ![p] = "aboard"]
       /\ admittedIn' = [admittedIn EXCEPT ![p] = nFlight]
  /\ boardedCount' = boardedCount + 1
  /\ nAdmitted' = nAdmitted + 1
  /\ hStop' = (boardedCount' >= capacity \/ QueueEmpty(pcPass'))
  /\ pcH' = "h_admit_semUp"
  /\ UNCHANGED <<sems, pilotStat, nFlight, finished, capacity, pilotLocal, hFin, last, pilotHist,
                 nToFlightRaises, nEmptyRaises, nEgress, boardedAtDeparture,
                 egressAtDeparture, finishedAt, failed, log>>

h_admit_semUp ==
  /\ pcH = "h_admit_semUp"
  /\ mutex' = mutex + 1
  /\ pcH' = IF hStop THEN "h_raiseToFlight" ELSE "h_admit_semDown"
  /\ UNCHANGED <<readyForBoarding, readyToFlight, passengersWaitInFlight, planeEmpty,
                 fSt, capacity, pilotLocal, hStop, hFin, passLocal, pilotHist, otherHist,
                 ghost>>

\* raise readyToFlight, once per cycle
h_raiseToFlight ==
  /\ pcH = "h_raiseToFlight"
  /\ readyToFlight' = readyToFlight + 1
  /\ nToFlightRaises' = nToFlightRaises + 1
  /\ boardedAtDeparture' = boardedCount
  /\ egressAtDeparture' = nEgress
  /\ pcH' = "h_cycle_semDown"
  /\ UNCHANGED <<mutex, readyForBoarding, passengersWaitInFlight, planeEmpty,
                 fSt, capacity, pilotLocal, hStop, hFin, passLocal, pilotHist,
                 nEmptyRaises, nAdmitted, nEgress,
                 admittedIn, finishedAt, failed, log>>

Hostess ==
  \/ h_cycle_semDown \/ h_cycle_read \/ h_cycle_semUp
  \/ h_waitBoarding \/ h_admit_semDown \/ h_admit \/ h_admit_semUp \/ h_raiseToFlight

\* ---- the passengers (specification 4.4) ----

\* the passenger reaches the airport and queues for admission
p_arrive(p) ==
  /\ pcPass[p] = "away"
  /\ pcPass' = [pcPass EXCEPT ![p] = "queued"]
  /\ UNCHANGED <<sems, fSt, capacity, pilotLocal, hostessLocal, last, pilotHist, otherHist,
                 ghost>>

\* seated: block on passengersWaitInFlight
p_waitInFlight(p) ==
  /\ pcPass[p] = "aboard"
  /\ passengersWaitInFlight > 0
  /\ passengersWaitInFlight' = passengersWaitInFlight - 1
  /\ pcPass' = [pcPass EXCEPT ![p] = "egress_semDown"]
  /\ UNCHANGED <<mutex, readyForBoarding, readyToFlight, planeEmpty,
                 fSt, capacity, pilotLocal, hostessLocal, last, pilotHist, otherHist,
                 ghost>>

p_egress_semDown(p) ==
  /\ pcPass[p] = "egress_semDown"
  /\ mutex > 0
  /\ mutex' = mutex - 1
  /\ pcPass' = [pcPass EXCEPT ![p] = "egress"]
  /\ UNCHANGED <<readyForBoarding, readyToFlight, passengersWaitInFlight, planeEmpty,
                 fSt, capacity, pilotLocal, hostessLocal, last, pilotHist, otherHist,
                 ghost>>

\* decrement the remaining-count; remember whether it reached zero
p_egress(p) ==
  /\ pcPass[p] = "egress"
  /\ boardedCount' = boardedCount - 1
  /\ last' = [last EXCEPT ![p] = (boardedCount' = 0)]
  /\ nEgress' = nEgress + 1
  /\ pcPass' = [pcPass EXCEPT ![p] = "egress_semUp"]
  /\ UNCHANGED <<sems, pilotStat, nFlight, finished, capacity, pilotLocal, hostessLocal, pilotHist,
                 nToFlightRaises, nEmptyRaises, nAdmitted, boardedAtDeparture,
                 ghost>>

p_egress_semUp(p) ==
  /\ pcPass[p] = "egress_semUp"
  /\ mutex' = mutex + 1
  /\ pcPass' = [pcPass EXCEPT ![p] = IF last[p] THEN "raiseEmpty" ELSE "atDestination"]
  /\ UNCHANGED <<readyForBoarding, readyToFlight, passengersWaitInFlight, planeEmpty,
                 fSt, capacity, pilotLocal, hostessLocal, last, pilotHist, otherHist,
                 ghost>>

\* the passenger whose decrement reached zero raises planeEmpty
p_raiseEmpty(p) ==
  /\ pcPass[p] = "raiseEmpty"
  /\ planeEmpty' = planeEmpty + 1
  /\ nEmptyRaises' = nEmptyRaises + 1
  /\ pcPass' = [pcPass EXCEPT ![p] = "atDestination"]
  /\ UNCHANGED <<mutex, readyForBoarding, readyToFlight, passengersWaitInFlight,
                 fSt, capacity, pilotLocal, hostessLocal, last, pilotHist,
                 nToFlightRaises, nAdmitted, nEgress, boardedAtDeparture,
                 ghost>>

Passenger(p) ==
  \/ p_arrive(p) \/ p_waitInFlight(p) \/ p_egress_semDown(p)
  \/ p_egress(p) \/ p_egress_semUp(p) \/ p_raiseEmpty(p)

\* ---- the external controller (specification 3: finished) ----

\* set finished, as one mutex-guarded write
SetFinished ==
  /\ ~finished
  /\ mutex > 0
  /\ finished' = TRUE
  /\ finishedAt' = pilotStat
  /\ UNCHANGED <<sems, pilotStat, nFlight, boardedCount, capacity,
                 pilotLocal, hostessLocal, passLocal, pilotHist, otherHist,
                 egressAtDeparture, admittedIn, failed, log>>

Next ==
  \/ Pilot
  \/ Hostess
  \/ \E p \in Passengers : Passenger(p)
  \/ SetFinished

Spec == Init /\ [][Next]_vars

\* the same system with semaphore operations of the pilot that may fail
NextFail == Next \/ PilotSemFail

SpecFail == Init /\ [][NextFail]_vars

\* every actor keeps taking steps while it can; the controller need not act
FairSpec ==
  /\ Spec
  /\ SF_vars(Pilot)
  /\ SF_vars(Hostess)
  /\ \A p \in Passengers : SF_vars(Passenger(p))

\* ---- properties ----

\* actors other than the pilot that are inside a mutex-guarded critical section
HostessInCS == pcH \in {"h_cycle_read", "h_cycle_semUp", "h_admit", "h_admit_semUp"}
PassengerInCS(p) == pcPass[p] \in {"egress", "egress_semUp"}
OthersInCS == (IF HostessInCS THEN 1 ELSE 0) + Cardinality({p \in Passengers : PassengerInCS(p)})

\* C1: the values the pilot writes to pilotStat are FLYING_BACK,
\* READY_FOR_BOARDING, WAITING_FOR_BOARDING, FLYING, DROPING_PASSENGERS and
\* then FLYING_BACK again, in that order with none skipped or repeated; every
\* write is saved, and every saveState observation differs from the one before.
C1_PhaseSequence ==
  /\ nWrites > 0 =>
       /\ lastWrite = PhaseSeq[((nWrites - 1) % Len(PhaseSeq)) + 1]
       /\ pilotStat = lastWrite
  /\ nSaves = nWrites /\ lastSave = lastWrite
  /\ nSaves > 0 => lastSave # prevSave

\* the second cycle's FLYING_BACK has been written and saved
C1_Witness == nWrites = Len(PhaseSeq) + 1 /\ lastSave = FLYING_BACK /\ prevSave = DROPING_PASSENGERS

\* C2: at most one actor is inside a mutex-guarded critical section, the mutex
\* count accounts for it, and every pilot write to pilotStat or nFlight is made
\* while the pilot holds the mutex and nobody else is inside.
C2_MutualExclusion ==
  /\ [](pilotHolds + OthersInCS <= 1 /\ mutex = 1 - (pilotHolds + OthersInCS))
  /\ [][(pilotStat' # pilotStat \/ nFlight' # nFlight \/ nWrites' # nWrites)
          => (pilotHolds = 1 /\ mutex = 0 /\ OthersInCS = 0)]_vars

\* the pilot writes FLYING under the mutex while the hostess waits for it
C2_Witness ==
  /\ pcP = "flight_semUp" /\ go /\ pilotStat = FLYING /\ pilotHolds = 1
  /\ pcH = "h_cycle_semDown" /\ mutex = 0

\* C3: every step in which the pilot evaluates the cycle test, isFinished() at
\* the top of the loop, is taken while the pilot holds the mutex.
C3_FinishedReadUnderMutex ==
  [][(pcP = "main_while" /\ pcP' # "main_while") => pilotHolds = 1]_vars

\* C4: the pilot does not hold the mutex when it is blocked on readyToFlight or
\* planeEmpty, raises readyForBoarding or passengersWaitInFlight, or sleeps in
\* the travel delay.
C4_NoMutexAtSuspension ==
  pcP \in {"wurf_semDownReady", "dp_semDownEmpty", "srb_semUpReady", "dp_semUpWait", "flight_usleep"}
    => pilotHolds = 0

\* the pilot is blocked on planeEmpty while a passenger is inside its egress
\* critical section
C4_Witness ==
  /\ pcP = "dp_semDownEmpty" /\ planeEmpty = 0
  /\ \E p \in Passengers : pcPass[p] = "egress"
  /\ mutex = 0

\* C5: under fair scheduling every cycle in which the hostess boarded between 1
\* and capacity passengers and raised readyToFlight is completed: the pilot's
\* wait on planeEmpty of that cycle is eventually released.
C5_EveryCycleCompletes ==
  \A n \in 1..NPassengers :
    (nToFlightRaises = n /\ boardedAtDeparture \in 1..capacity) ~> (nEmptyTaken >= n)

InEgress(p) == pcPass[p] \in {"egress_semDown", "egress", "egress_semUp", "raiseEmpty"}
OnBoard(p) == pcPass[p] = "aboard" \/ InEgress(p)
PilotPastEmptyWait == nFlight > 0 /\ nEmptyTaken = nFlight

\* C6: the pilot is released from its wait on planeEmpty exactly when every
\* passenger that boarded has vacated: while planeEmpty is raised or the pilot
\* has passed the wait of the current cycle, boardedCount is 0, every admission
\* has its egress and no passenger is on board; and when the pilot is at the
\* wait and every boarded passenger has vacated, planeEmpty is raised.
C6_DisembarkComplete ==
  /\ (planeEmpty > 0 \/ PilotPastEmptyWait) =>
       /\ boardedCount = 0
       /\ nEgress = nAdmitted
       /\ \A p \in Passengers : ~OnBoard(p)
  /\ (pcP = "dp_semDownEmpty" /\ \A p \in Passengers : ~OnBoard(p)) => planeEmpty > 0

\* the pilot has passed the wait of the second cycle
C6_Witness == pcP = "dp_semDown2" /\ nFlight = 2 /\ nEgress = 2

\* C7: in every cycle that reaches the destination planeEmpty is raised
\* exactly once: never more often than passengersWaitInFlight, only by the
\* passenger whose decrement reached zero after every admitted passenger's
\* decrement, and under fair scheduling each such cycle does get its raise.
C7_PlaneEmptyOncePerCycle ==
  /\ [](nEmptyRaises <= nWaitRaises /\ planeEmpty <= 1)
  /\ [][nEmptyRaises' # nEmptyRaises =>
          /\ nEmptyRaises' = nEmptyRaises + 1
          /\ boardedCount = 0 /\ nEgress = nAdmitted
          /\ \E p \in Passengers : pcPass[p] = "raiseEmpty" /\ last[p]]_vars
  /\ \A n \in 1..NPassengers : (nWaitRaises = n) ~> (nEmptyRaises = n)

\* C8: a passenger is admitted only after the pilot's raise of readyForBoarding
\* of the current flight and before the hostess's raise of readyToFlight of
\* that flight, and the pilot is FLYING or DROPING_PASSENGERS only after the
\* hostess has raised readyToFlight for the current flight.
C8_NoPrematureBoardingOrDeparture ==
  /\ [](lastWrite \in {FLYING, DROPING_PASSENGERS} => (nFlight > 0 /\ nToFlightRaises = nFlight))
  /\ [](boardedCount > 0 => (nFlight > 0 /\ nBoardingRaises = nFlight))
  /\ [][nAdmitted' # nAdmitted =>
          /\ nFlight > 0 /\ nBoardingRaises = nFlight
          /\ nToFlightRaises = nFlight - 1
          /\ pilotStat \in {READY_FOR_BOARDING, WAITING_FOR_BOARDING}]_vars

\* the pilot has departed with a full plane of two
C8_Witness == pilotStat = FLYING /\ boardedCount = 2 /\ nAdmitted = 2

\* C9: a passenger performs its egress decrement only while pilotStat is
\* DROPING_PASSENGERS and after passengersWaitInFlight was raised for the
\* current flight; no passenger is leaving while the pilot is in another phase.
C9_NoPrematureEgress ==
  /\ []((\E p \in Passengers : InEgress(p)) =>
          (pilotStat = DROPING_PASSENGERS /\ nFlight > 0 /\ nWaitRaises = nFlight))
  /\ [][nEgress' # nEgress =>
          (pilotStat = DROPING_PASSENGERS /\ nFlight > 0 /\ nWaitRaises = nFlight)]_vars

\* a passenger of a flight of two is inside its egress critical section
C9_Witness ==
  /\ \E p \in Passengers : pcPass[p] = "egress"
  /\ boardedCount = 2 /\ pilotStat = DROPING_PASSENGERS

\* C10: nFlight goes up by exactly 1 per cycle and never down; it equals the
\* number of READY_FOR_BOARDING writes; readyForBoarding is raised once per
\* cycle, after the mutex is released, and lags nFlight by one only between
\* the write and the raise.
C10_FlightNumber ==
  /\ [](nFlight = (nWrites + 3) \div Len(PhaseSeq))
  /\ [](nFlight - nBoardingRaises = (IF pcP \in {"srb_semUp", "srb_semUpReady"} THEN 1 ELSE 0))
  /\ [](readyForBoarding <= 1)
  /\ [][nFlight' = nFlight \/ (nFlight' = nFlight + 1 /\ lastWrite' = READY_FOR_BOARDING)]_vars
  /\ [][nBoardingRaises' # nBoardingRaises =>
          (nBoardingRaises' = nFlight /\ pilotHolds = 0)]_vars

\* the raise of the second flight is pending, the mutex already released
C10_Witness == pcP = "srb_semUpReady" /\ nFlight = 2 /\ nBoardingRaises = 1 /\ pilotHolds = 0

\* C11: when the cycle test finds finished true the pilot leaves the loop, and
\* from then on it writes neither pilotStat nor nFlight, takes or gives back no
\* mutex, logs nothing and raises neither readyForBoarding nor
\* passengersWaitInFlight.
C11_CleanExit ==
  /\ [][(pcP = "main_while" /\ finished /\ pcP' # pcP) => pcP' = "done"]_vars
  /\ [][pcP = "done" =>
          /\ pcP' = "done"
          /\ UNCHANGED <<pilotStat, nFlight, pilotHolds, pilotHist, log>>]_vars
  /\ [](pcP = "done" =>
          /\ finished /\ pilotHolds = 0
          /\ nWrites = Len(PhaseSeq) * nFlight
          /\ nBoardingRaises = nFlight /\ nWaitRaises = nFlight)

\* the pilot has left the loop after a complete flight, while a passenger
\* still queues
C11_Witness ==
  /\ pcP = "done" /\ nFlight = 1 /\ pilotStat = DROPING_PASSENGERS
  /\ \E p \in Passengers : pcPass[p] = "queued"

\* C12: the pilot leaves the loop only at the cycle test; whatever the value of
\* finished, between two cycle tests it has received readyToFlight, written
\* FLYING and DROPING_PASSENGERS and consumed planeEmpty.
C12_NoMidCycleAbort ==
  /\ [][pcP' = "done" => pcP \in {"main_while", "done"}]_vars
  /\ [](pcP \in {"main_while", "done"} =>
          /\ nWrites = Len(PhaseSeq) * nFlight
          /\ nToFlightRaises = nFlight /\ readyToFlight = 0
          /\ nEmptyTaken = nFlight
          /\ (nFlight > 0 => pilotStat = DROPING_PASSENGERS))
  /\ [][(finished /\ pcP \notin {"main_while", "done"} /\ pcP' # pcP)
          => (pcP' \notin {"main_while", "done"} \/ pcP = "dp_semUp2")]_vars

\* finished was set while the pilot was WAITING_FOR_BOARDING, and the pilot is
\* back at the cycle test with that flight completed
C12_Witness ==
  /\ finishedAt = WAITING_FOR_BOARDING
  /\ pcP = "main_while" /\ nFlight = 1 /\ nEmptyTaken = 1 /\ nToFlightRaises = 1

\* C13: under fair scheduling, once the pilot has read finished as true and
\* left the loop, neither the hostess nor a passenger stays blocked on a
\* rendezvous signal forever.
C13_NoActorAbandoned ==
  /\ (finished /\ pcP = "main_while") ~> (pcP = "done")
  /\ (pcP = "done") ~> (pcH # "h_waitBoarding" /\ \A p \in Passengers : pcPass[p] # "aboard")

\* C14: a semaphore operation of the pilot that fails changes nothing of the
\* record, the semaphores or the log and ends the pilot; it is not retried, and
\* an aborted pilot takes no further step.
C14_FailureIsFatal ==
  /\ [][(failed' /\ ~failed) =>
          /\ pcP \in SemOpPositions /\ pcP' = "aborted"
          /\ UNCHANGED <<sems, fSt, pilotHolds, pilotHist, log>>]_vars
  /\ [](failed <=> pcP = "aborted")
  /\ [][pcP = "aborted" =>
          /\ pcP' = "aborted"
          /\ UNCHANGED <<pilotStat, nFlight, pilotHolds, pilotHist, log>>]_vars

\* the semDown on readyToFlight has failed in the first flight
C14_Witness ==
  /\ failed /\ pcP = "aborted"
  /\ nFlight = 1 /\ pilotStat = WAITING_FOR_BOARDING /\ pilotHolds = 0 /\ readyToFlight = 0

AdmittedInFlight(f) == {p \in Passengers : admittedIn[p] = f}

C16_CapacityBound ==
  /\ [](boardedCount <= capacity)
  /\ [](\A f \in 1..(NPassengers + 1) : Cardinality(AdmittedInFlight(f)) <= capacity)
  /\ [](\A p \in Passengers : admittedIn[p] <= nBoardingRaises)
  /\ [][nAdmitted' # nAdmitted =>
          /\ nBoardingRaises = nFlight
          /\ \E p \in Passengers : admittedIn[p] = 0 /\ admittedIn'[p] = nFlight
          /\ (hStop' /\ ~QueueEmpty(pcPass')) => boardedCount' = capacity
          /\ ~hStop' => boardedCount' < capacity]_vars

\* capacity 2, three passengers at the airport: two fly in flight 1, the third
\* still queues
C16_Witness ==
  /\ capacity = 2 /\ nFlight = 1 /\ pilotStat = FLYING
  /\ Cardinality(AdmittedInFlight(1)) = 2 /\ boardedCount = 2
  /\ \E p \in Passengers : pcPass[p] = "queued" /\ admittedIn[p] = 0

\* C17: every log line of the pilot is written while the pilot holds the
\* mutex and nobody else is inside, the mutex is still held after the write,
\* and the line shows the pilotStat and nFlight the record holds after the
\* step; the last line always agrees with the record.
C17_LogUnderMutex ==
  /\ [][log' # log =>
          /\ pilotHolds = 1 /\ pilotHolds' = 1
          /\ mutex = 0 /\ mutex' = 0 /\ OthersInCS = 0
          /\ log'.n > log.n
          /\ log'.stat = pilotStat' /\ log'.nFlight = nFlight']_vars
  /\ [](log.n > 0 => (log.stat = pilotStat /\ log.nFlight = nFlight))
  /\ [][(pilotStat' # pilotStat \/ nFlight' # nFlight) => log' # log]_vars

\* the start of boarding of the second flight has just been logged
C17_Witness ==
  /\ pcP = "srb_semUp" /\ pilotHolds = 1
  /\ log.ev = "saveStartBoarding" /\ log.nFlight = 2 /\ log.stat = READY_FOR_BOARDING

\* C18: a step of the pilot leaves the hostess's and the passengers' state,
\* boardedCount, finished and the history of their operations unchanged.
C18_PilotFrame ==
  [][pcP' # pcP =>
       UNCHANGED <<hostessLocal, passLocal, boardedCount, finished, capacity, otherHist,
                   egressAtDeparture, admittedIn, finishedAt>>]_vars

\* the pilot has written DROPING_PASSENGERS with two passengers aboard
C18_Witness ==
  /\ pcP = "dp_semUp" /\ pilotStat = DROPING_PASSENGERS
  /\ boardedCount = 2 /\ nAdmitted = 2

C20_SavedOnceWhenDropping ==
  /\ [][(log' # log /\ log'.ev = "saveFlightReturning") =>
          /\ log'.n = log.n + 1
          /\ pilotHolds = 1 /\ nEmptyTaken = nFlight
          /\ boardedCount = 0 /\ \A p \in Passengers : ~OnBoard(p)
          /\ pilotStat = DROPING_PASSENGERS /\ pilotStat' = DROPING_PASSENGERS
          /\ nSaves' = nSaves /\ nWrites' = nWrites]_vars
  /\ [](pcP \in {"dp_semUp", "dp_semUpWait", "dp_semDownEmpty", "dp_semDown2",
                 "dp_saveReturning", "dp_semUp2", "main_while", "done"}
          => nSaves = Len(PhaseSeq) * nFlight)
  /\ [](pcP \in {"dp_semUp2", "main_while", "done"} /\ nFlight > 0
          => (log.ev = "saveFlightReturning" /\ log.stat = DROPING_PASSENGERS))

\* the return of the first flight has just been logged
C20_Witness ==
  /\ pcP = "dp_semUp2" /\ log.ev = "saveFlightReturning"
  /\ nFlight = 1 /\ nSaves = Len(PhaseSeq) /\ pilotStat = DROPING_PASSENGERS

====
